---- MODULE Spec2Model ----
(***************************************************************************)
(* The agent execution core of ResearchAgent: Agent::run (the completion / *)
(* tool-dispatch / callback loop), the Tool and FunctionalTool shapes, the *)
(* history compaction, the message logger, the key-value memory tools and  *)
(* the sub-agent tools of the research orchestrator.                       *)
(***************************************************************************)
EXTENDS Integers, Sequences, FiniteSets, TLC

\* ------------------------------------------------------------------ bounds
\* Loop iterations one run may start.
MaxTurns == 3
\* Tool calls a free completion backend may emit over one run.
MaxCalls == 2
\* Tool calls the delegating orchestrator's backend may emit over one run.
MaxSubCalls == 3
\* Longest transcript handed to the compaction on its own.
MaxLen == 5
\* Largest keep_last the compaction is built with on its own.
MaxKeep == 3
\* Longest transcript handed to the logger on its own, and how many calls.
MaxLogLen == 3
MaxLogCalls == 3
\* Memory tool calls made, over all callers, when the stores are used on
\* their own.
MaxMemOps == 3
\* The most choices in a chat response, and the most tool calls in a choice.
MaxChoices == 2
MaxToolCalls == 2

\* ------------------------------------------------------- program constants
\* keep_last handed to SummarizeHistory::new by the orchestrator.
KEEP_LAST == 2
\* Word-count threshold of the SummarizeHistory callback.
TOKEN_LIMIT == 5000

\* ---------------------------------------------------------------- messages
\* llm::Message, one record shape for the four variants: `content` is the
\* text of User/System/Assistant and the `result` of Tool.
User(c) == [kind |-> "User", content |-> c, tool_calls |-> <<>>, id |-> 0, name |-> ""]
System(c) == [kind |-> "System", content |-> c, tool_calls |-> <<>>, id |-> 0, name |-> ""]
Assistant(c, calls) ==
    [kind |-> "Assistant", content |-> c, tool_calls |-> calls, id |-> 0, name |-> ""]
Tool(id, name, result) ==
    [kind |-> "Tool", content |-> result, tool_calls |-> <<>>, id |-> id, name |-> name]
\* tools::ToolCall; args is the raw payload, modelled by its JSON shape: the
\* sequence of the string fields it carries.
ToolCall(id, name, args) == [id |-> id, name |-> name, args |-> args]

\* str::split_whitespace().count() of the texts the model uses.
Words(c) ==
    CASE c = "long task" -> 5000
      [] c = "bulk text" -> 4996
      [] c \in {"completed", "text", "summary", "report", "task", "child report"} -> 1
      [] c \in {"do stuff", "tool call", "orchestrator prompt", "subagent prompt"} -> 2
      [] c \in {"tool call recieved", "Keys in memory:"} -> 3
      [] c \in {"2 * 123 = 246", "key k1 inserted into memory",
                "key k2 inserted into memory", "Keys in memory: - k1",
                "Keys in memory: - k2",
                "value of key k1: v1", "value of key k1: v2", "value of key k1: v3",
                "value of key k2: v1", "value of key k2: v2", "value of key k2: v3"} -> 5
      [] c \in {"key k1 is not in memory", "key k2 is not in memory",
                "Research sub-agent started for task: subtask"} -> 6
      [] c \in {"Keys in memory: - k1 - k2", "Keys in memory: - k2 - k1"} -> 7
      [] c = "no sub-agents are currently active" -> 14
      [] OTHER -> 90

\* Message::ntokens.
ntokens(m) == Words(m.content)

RECURSIVE SumTokens(_)
SumTokens(msgs) ==
    IF msgs = <<>> THEN 0 ELSE ntokens(Head(msgs)) + SumTokens(Tail(msgs))

\* Message::get_hash: the derived Hash feeds the variant and its fields to the
\* hasher, so equal hashes are modelled as equal field tuples.
get_hash(m) == <<m.kind, m.content, m.tool_calls, m.id, m.name>>

Last(s) == s[Len(s)]

\* ---------------------------------------------------------- stop conditions
\* Mutant: any tool result ends the run.
TaskCompletedAnyTool(history) ==
    /\ history # <<>>
    /\ history[Len(history)].kind = "Tool"
\* research.rs TaskCompleted::done.
TaskCompleted(history) ==
    /\ Len(history) > 0
    /\ Last(history).kind = "Tool"
    /\ Last(history).name = "complete_task"

\* agent.rs tests::SimpleStop::done.
SimpleStop(history) ==
    /\ Len(history) > 0
    /\ Last(history).kind = "Assistant"
    /\ Last(history).content = "completed"

\* StopCondition::done through the trait object the agent holds.
done(stop, history) ==
    CASE stop = "TaskCompleted" -> TaskCompleted(history)
      [] stop = "SimpleStop" -> SimpleStop(history)

\* -------------------------------------------------------------------- errors
\* agent::Error: the variant and the name it carries; NoError where a record
\* holds no error.
E(kind) == <<kind, "">>
NoError == <<"", "">>

\* ------------------------------------------------------------ completions
\* ToolCall::args: serde_json::from_str into the tool's argument type succeeds
\* when the payload has the fields the type declares.
args(call, nfields) == Len(call.args) = nfields

\* The texts and the calls a completion backend is taken to answer with. A
\* response is [ok, err, content, tool_calls] (Result<CompletionResponse>).
Response(content, calls) == [ok |-> TRUE, err |-> NoError, content |-> content, tool_calls |-> calls]
ResponseErr(e) == [ok |-> FALSE, err |-> e, content |-> "", tool_calls |-> <<>>]

\* agent.rs tests::MockLLM::completion.
MockLLM(msgs) ==
    IF msgs = <<>> THEN {ResponseErr(E("panic"))}
    ELSE CASE Last(msgs).kind = "User" ->
                {Response("tool call", <<ToolCall(1, "double", <<"123">>)>>)}
           [] Last(msgs).kind = "Tool" -> {Response("tool call recieved", <<>>)}
           [] Last(msgs).kind = "Assistant" -> {Response("completed", <<>>)}
           [] OTHER -> {ResponseErr(E("panic"))}

\* The sequences over S of length 0..n.
SeqsUpTo(S, n) == UNION {[1..k -> S] : k \in 0..n}

\* A backend free to answer anything: every text of `contents` with every
\* sequence of at most `budget` calls shaped by `choices`, the call ids fresh
\* (first_id, first_id + 1, ...), or an error (OpenaiError, LLMResponseError).
FreeLLM(contents, choices, first_id, budget) ==
    {Response(c, [i \in 1..Len(cs) |-> ToolCall(first_id + i - 1, cs[i][1], cs[i][2])]) :
        c \in contents, cs \in SeqsUpTo(choices, budget)}
    \cup {ResponseErr(E("LLMResponseError"))}

\* LLM::completion of the backend the agent was built with.
completion(llm, msgs, contents, choices, first_id, budget) ==
    IF llm = "MockLLM" THEN MockLLM(msgs)
    ELSE FreeLLM(contents, choices, first_id, budget)

\* ------------------------------------------------------------------- tools
\* What a tool can touch besides the transcript is carried in one record:
\* st = [messages, memory, running, finished, subagent_id].
\* A tool's invoke yields [ok, err, st, reqs]: Ok(transcript) or Err(e), the
\* state it left behind and the completion requests it sent.
Ok(st, reqs) == [ok |-> TRUE, err |-> NoError, st |-> st, reqs |-> reqs]
Err(e, st, reqs) == [ok |-> FALSE, err |-> e, st |-> st, reqs |-> reqs]
\* A FunctionalTool's invoke_fn yields [ok, err, msg, st].
NoMessage == User("")
FnOk(msg, st) == [ok |-> TRUE, err |-> NoError, msg |-> msg, st |-> st]
FnErr(e, st) == [ok |-> FALSE, err |-> e, msg |-> NoMessage, st |-> st]

\* Mutant: the result message put in front of the transcript.
FunctionalToolInvokeFront(r) ==
    IF r.ok
    THEN Ok([r.st EXCEPT !.messages = <<r.msg>> \o r.st.messages], 0)
    ELSE Err(r.err, r.st, 0)
\* impl<T: FunctionalTool> Tool for T: push the one message invoke_fn returned.
FunctionalToolInvoke(r) ==
    IF r.ok
    THEN Ok([r.st EXCEPT !.messages = Append(r.st.messages, r.msg)], 0)
    ELSE Err(r.err, r.st, 0)

\* agent.rs tests::DoubleTool::invoke_fn ("2 * {} = {}" of the i32 argument).
DoubleText(arg) == IF arg = "123" THEN "2 * 123 = 246" ELSE "2 * n = 2n"
DoubleTool(call, st) ==
    IF args(call, 1)
    THEN {FnOk(Tool(call.id, "double", DoubleText(call.args[1])), st)}
    ELSE {FnErr(E("JsonError"), st)}

\* research.rs CompleteTask::invoke_fn.
CompleteTask(call, st) ==
    IF args(call, 1)
    THEN {FnOk(Tool(call.id, "complete_task", call.args[1]), st)}
    ELSE {FnErr(E("JsonError"), st)}

\* The texts the memory tools format, for the keys and values the model
\* uses: "- {key}" lines in the order the map's keys() yields them,
\* "value of key {key}:\n{value}", "key {key} is not in memory",
\* "key {key} inserted into memory".
ListText(order) ==
    CASE order = <<>> -> "Keys in memory:"
      [] order = <<"k1">> -> "Keys in memory: - k1"
      [] order = <<"k2">> -> "Keys in memory: - k2"
      [] order = <<"k1", "k2">> -> "Keys in memory: - k1 - k2"
      [] order = <<"k2", "k1">> -> "Keys in memory: - k2 - k1"
      [] OTHER -> "Keys in memory: ..."
GetText(key, value) ==
    CASE key = "k1" /\ value = "v1" -> "value of key k1: v1"
      [] key = "k1" /\ value = "v2" -> "value of key k1: v2"
      [] key = "k1" /\ value = "v3" -> "value of key k1: v3"
      [] key = "k2" /\ value = "v1" -> "value of key k2: v1"
      [] key = "k2" /\ value = "v2" -> "value of key k2: v2"
      [] key = "k2" /\ value = "v3" -> "value of key k2: v3"
      [] OTHER -> "value of key ...: ..."
MissingText(key) ==
    CASE key = "k1" -> "key k1 is not in memory"
      [] key = "k2" -> "key k2 is not in memory"
      [] OTHER -> "key ... is not in memory"
InsertedText(key) ==
    CASE key = "k1" -> "key k1 inserted into memory"
      [] key = "k2" -> "key k2 inserted into memory"
      [] OTHER -> "key ... inserted into memory"
\* The orders in which a HashMap may yield a set of keys, each key once.
Orders(keys) ==
    {o \in SeqsUpTo(keys, Cardinality(keys)) :
        Len(o) = Cardinality(keys) /\ {o[i] : i \in 1..Len(o)} = keys}
\* KVMemoryTool::list_keys, get_key, set_key on the shared map; list_keys
\* gives the texts it may return, one per order of the keys.
list_keys(memory) == {ListText(o) : o \in Orders(DOMAIN memory)}
get_key(memory, key) ==
    IF key \in DOMAIN memory THEN GetText(key, memory[key]) ELSE MissingText(key)
\* Mutant: a key already in the map keeps its value.
set_key_absent(memory, key, value) ==
    [k \in DOMAIN memory \cup {key} |-> IF k \in DOMAIN memory THEN memory[k] ELSE value]
set_key(memory, key, value) ==
    [k \in DOMAIN memory \cup {key} |-> IF k = key THEN value ELSE memory[k]]

\* MemoryListTool, MemoryGetTool, MemorySetTool ::invoke_fn.
MemoryListTool(call, st) ==
    {FnOk(Tool(call.id, "memory_list_keys", text), st) : text \in list_keys(st.memory)}
MemoryGetTool(call, st) ==
    IF args(call, 1)
    THEN {FnOk(Tool(call.id, "memory_get_key", get_key(st.memory, call.args[1])), st)}
    ELSE {FnErr(E("JsonError"), st)}
MemorySetTool(call, st) ==
    IF args(call, 2)
    THEN {FnOk(Tool(call.id, "memory_set_key", InsertedText(call.args[1])),
               [st EXCEPT !.memory = set_key(st.memory, call.args[1], call.args[2])])}
    ELSE {FnErr(E("JsonError"), st)}

\* Mutant: a failed sub-agent is reported in a Tool message.
WaitForSubAgentReportsFailure(call, st) ==
    IF st.running = {} /\ st.finished = <<>>
    THEN {FnOk(Tool(call.id, "wait_for_subagent", "no sub-agents are currently active"), st)}
    ELSE IF st.finished = <<>> THEN {}
    ELSE LET h == Head(st.finished)
             st2 == [st EXCEPT !.finished = Tail(st.finished)]
         IN  IF ~h.ok THEN {FnOk(Tool(call.id, "wait_for_subagent", "sub-agent failed"), st2)}
             ELSE IF h.last.kind = "Tool" /\ h.last.name = "return_task_result"
                  THEN {FnOk(Tool(call.id, "wait_for_subagent", h.last.content), st2)}
                  ELSE {FnErr(E("AgentWorkflowError"), st2)}
\* Mutant: of the finished tasks the one spawned first is taken.
WaitForSubAgentBySpawn(call, st) ==
    IF st.running = {} /\ st.finished = <<>>
    THEN {FnOk(Tool(call.id, "wait_for_subagent", "no sub-agents are currently active"), st)}
    ELSE IF st.finished = <<>> THEN {}
    ELSE LET i == CHOOSE i \in 1..Len(st.finished) :
                    \A j \in 1..Len(st.finished) : st.finished[i].id <= st.finished[j].id
             h == st.finished[i]
             st2 == [st EXCEPT !.finished = SubSeq(st.finished, 1, i - 1)
                                              \o SubSeq(st.finished, i + 1, Len(st.finished))]
         IN  IF ~h.ok THEN {FnErr(h.err, st2)}
             ELSE IF h.last.kind = "Tool" /\ h.last.name = "return_task_result"
                  THEN {FnOk(Tool(call.id, "wait_for_subagent", h.last.content), st2)}
                  ELSE {FnErr(E("AgentWorkflowError"), st2)}
\* Mutant: join_next polled once, answering as for an empty set when no task
\* has finished yet.
WaitForSubAgentPolling(call, st) ==
    IF st.finished = <<>>
    THEN {FnOk(Tool(call.id, "wait_for_subagent", "no sub-agents are currently active"), st)}
    ELSE LET h == Head(st.finished)
             st2 == [st EXCEPT !.finished = Tail(st.finished)]
         IN  IF ~h.ok THEN {FnErr(h.err, st2)}
             ELSE IF h.last.kind = "Tool" /\ h.last.name = "return_task_result"
                  THEN {FnOk(Tool(call.id, "wait_for_subagent", h.last.content), st2)}
                  ELSE {FnErr(E("AgentWorkflowError"), st2)}
\* WaitForSubAgent::invoke_fn: join_next on the handle set. None when the set
\* is empty; otherwise it waits (no outcome here) until a task has finished
\* and takes the one that finished first.
WaitForSubAgent(call, st) ==
    IF st.running = {} /\ st.finished = <<>>
    THEN {FnOk(Tool(call.id, "wait_for_subagent", "no sub-agents are currently active"), st)}
    ELSE IF st.finished = <<>> THEN {}
    ELSE LET h == Head(st.finished)
             st2 == [st EXCEPT !.finished = Tail(st.finished)]
         IN  IF ~h.ok THEN {FnErr(h.err, st2)}
             ELSE IF h.last.kind = "Tool" /\ h.last.name = "return_task_result"
                  THEN {FnOk(Tool(call.id, "wait_for_subagent", h.last.content), st2)}
                  ELSE {FnErr(E("AgentWorkflowError"), st2)}

\* SummarizeHistory::summarize_history with the summary request answered by
\* the agent's backend (its text only; the request advertises no tools).
SummaryTexts(llm, head) ==
    IF llm = "MockLLM" THEN MockLLM(head) ELSE {Response("summary", <<>>), ResponseErr(E("LLMResponseError"))}
PROMPT == "summarize prompt"
\* The CompletionRequest summarize_history builds.
SummaryRequest(head) == [messages |-> head, tools |-> <<>>]
\* Mutant: a transcript of exactly 2 + keep_last messages is left alone too.
summarize_history_above(llm, keep_last, st) ==
    LET messages == st.messages IN
    IF Len(messages) <= 2 + keep_last THEN {Ok(st, 0)}
    ELSE LET last_messages == SubSeq(messages, Len(messages) - keep_last + 1, Len(messages))
             head == Append(SubSeq(messages, 1, Len(messages) - keep_last), User(PROMPT))
         IN  {IF r.ok
              THEN Ok([st EXCEPT !.messages =
                          SubSeq(head, 1, 2) \o <<Assistant(r.content, <<>>)>> \o last_messages], 1)
              ELSE Err(r.err, st, 1) : r \in SummaryTexts(llm, SummaryRequest(head).messages)}
\* Mutant: the summary is put after the kept messages.
summarize_history_summary_last(llm, keep_last, st) ==
    LET messages == st.messages IN
    IF Len(messages) < 2 + keep_last THEN {Ok(st, 0)}
    ELSE LET last_messages == SubSeq(messages, Len(messages) - keep_last + 1, Len(messages))
             head == Append(SubSeq(messages, 1, Len(messages) - keep_last), User(PROMPT))
         IN  {IF r.ok
              THEN Ok([st EXCEPT !.messages =
                          SubSeq(head, 1, 2) \o last_messages \o <<Assistant(r.content, <<>>)>>], 1)
              ELSE Err(r.err, st, 1) : r \in SummaryTexts(llm, SummaryRequest(head).messages)}
summarize_history(llm, keep_last, st) ==
    LET messages == st.messages IN
    IF Len(messages) < 2 + keep_last THEN {Ok(st, 0)}
    ELSE LET last_messages == SubSeq(messages, Len(messages) - keep_last + 1, Len(messages))
             head == Append(SubSeq(messages, 1, Len(messages) - keep_last), User(PROMPT))
         IN  {IF r.ok
              THEN Ok([st EXCEPT !.messages =
                          SubSeq(head, 1, 2) \o <<Assistant(r.content, <<>>)>> \o last_messages], 1)
              ELSE Err(r.err, st, 1) : r \in SummaryTexts(llm, SummaryRequest(head).messages)}

\* StartSubAgent::invoke: parse, take the next number, create the log file,
\* spawn the child into the handle set, acknowledge.
\* Mutant: the counter is read, not advanced.
StartSubAgentSameName(call, st) ==
    IF ~args(call, 1) THEN {Err(E("JsonError"), st, 0)}
    ELSE LET name == st.subagent_id
         IN  {Err(E("IOError"), st, 0),
              Ok([st EXCEPT !.running = st.running \cup {name},
                            !.messages = Append(st.messages,
                                Tool(call.id, "start_subagent",
                                     "Research sub-agent started for task: subtask"))], 0)}
\* Mutant: the child is spawned before its log file is created, so a start
\* that fails on the file leaves a task behind.
StartSubAgentSpawnsFirst(call, st) ==
    IF ~args(call, 1) THEN {Err(E("JsonError"), st, 0)}
    ELSE LET name == st.subagent_id
             st1 == [st EXCEPT !.subagent_id = st.subagent_id + 1,
                               !.running = st.running \cup {name}]
         IN  {Err(E("IOError"), st1, 0),
              Ok([st1 EXCEPT !.messages = Append(st.messages,
                                 Tool(call.id, "start_subagent",
                                      "Research sub-agent started for task: subtask"))], 0)}
\* Mutant: start_subagent awaits the child it spawned before it answers.
StartSubAgentJoined(call, st) ==
    IF ~args(call, 1) THEN {Err(E("JsonError"), st, 0)}
    ELSE LET name == st.subagent_id
             st1 == [st EXCEPT !.subagent_id = st.subagent_id + 1]
         IN  {Err(E("IOError"), st1, 0),
              Ok([st1 EXCEPT !.finished = Append(st.finished,
                                 [id |-> name, ok |-> TRUE, err |-> NoError,
                                  last |-> Tool(1, "complete_task", "child report")]),
                             !.messages = Append(st.messages,
                                 Tool(call.id, "start_subagent",
                                      "Research sub-agent started for task: subtask"))], 0)}
StartSubAgent(call, st) ==
    IF ~args(call, 1) THEN {Err(E("JsonError"), st, 0)}
    ELSE LET name == st.subagent_id
             st1 == [st EXCEPT !.subagent_id = st.subagent_id + 1]
         IN  {Err(E("IOError"), st1, 0),
              Ok([st1 EXCEPT !.running = st.running \cup {name},
                             !.messages = Append(st.messages,
                                 Tool(call.id, "start_subagent",
                                      "Research sub-agent started for task: subtask"))], 0)}

\* The tools that implement FunctionalTool.
FunctionalTools ==
    {"double", "complete_task", "memory_list_keys", "memory_get_key", "memory_set_key",
     "wait_for_subagent"}
\* FunctionalTool::invoke_fn of the functional tool called `name`.
invoke_fn(name, call, st) ==
    CASE name = "double" -> DoubleTool(call, st)
      [] name = "complete_task" -> CompleteTask(call, st)
      [] name = "memory_list_keys" -> MemoryListTool(call, st)
      [] name = "memory_get_key" -> MemoryGetTool(call, st)
      [] name = "memory_set_key" -> MemorySetTool(call, st)
      [] name = "wait_for_subagent" -> WaitForSubAgent(call, st)

\* Tool::invoke of the registered tool called `name`.
invoke(name, llm, call, st) ==
    CASE name \in FunctionalTools -> {FunctionalToolInvoke(r) : r \in invoke_fn(name, call, st)}
      [] name = "summarize_history" -> summarize_history(llm, KEEP_LAST, st)
      [] name = "start_subagent" -> StartSubAgent(call, st)

\* Mutant: a call to an unregistered tool is passed over.
execute_tool_call_lenient(tools, llm, call, st) ==
    IF call.name \notin tools THEN {Ok(st, 0)}
    ELSE invoke(call.name, llm, call, st)
\* Agent::execute_tool_call: look the tool up by name, then invoke it.
execute_tool_call(tools, llm, call, st) ==
    IF call.name \notin tools THEN {Err(<<"ToolDoesNotExist", call.name>>, st, 0)}
    ELSE invoke(call.name, llm, call, st)

\* --------------------------------------------------------------- callbacks
\* A callback's call yields [ok, err, messages, logger, reqs].
CbOk(msgs, lg, reqs) == [ok |-> TRUE, err |-> NoError, messages |-> msgs, logger |-> lg, reqs |-> reqs]
CbErr(e, msgs, lg, reqs) == [ok |-> FALSE, err |-> e, messages |-> msgs, logger |-> lg, reqs |-> reqs]

\* Mutant: the callback compacts at the threshold already.
SummarizeHistoryCallAtLimit(llm, st, lg) ==
    IF SumTokens(st.messages) >= TOKEN_LIMIT
    THEN {IF o.ok THEN CbOk(o.st.messages, lg, o.reqs) ELSE CbErr(o.err, st.messages, lg, o.reqs) :
            o \in summarize_history(llm, KEEP_LAST, st)}
    ELSE {CbOk(st.messages, lg, 0)}
\* impl Callback for SummarizeHistory: compact above the word threshold.
SummarizeHistoryCall(llm, st, lg) ==
    IF SumTokens(st.messages) > TOKEN_LIMIT
    THEN {IF o.ok THEN CbOk(o.st.messages, lg, o.reqs) ELSE CbErr(o.err, st.messages, lg, o.reqs) :
            o \in summarize_history(llm, KEEP_LAST, st)}
    ELSE {CbOk(st.messages, lg, 0)}

\* The logger's sink is a sequence of the sections it wrote.
Entry(tag, n, m) == [tag |-> tag, step |-> n, msg |-> m]
\* MessageLogger::new: the "## name" header, no hashes, step 0.
MessageLoggerNew == [last_hashes |-> <<>>, step |-> 0, sink |-> <<Entry("header", 0, NoMessage)>>]

\* MessageLogger::display_messages: "### Step n", the messages, "---".
display_messages(lg, msgs) ==
    [lg EXCEPT !.sink = (Append(lg.sink, Entry("step", lg.step, NoMessage))
                            \o [i \in 1..Len(msgs) |-> Entry("msg", lg.step, msgs[i])])
                        \o <<Entry("rule", lg.step, NoMessage)>>]
\* Mutant: nothing is written where the history was cleared.
display_history_cleared_silent(lg) == lg
\* MessageLogger::display_history_cleared.
display_history_cleared(lg) ==
    [lg EXCEPT !.sink = Append(lg.sink, Entry("cleared", lg.step, NoMessage))]
\* Mutant: the zipped positions, whether their hashes agree or not.
prefix_match_len_zipped(last_hashes, new_hashes) ==
    Cardinality({i \in 1..Len(new_hashes) : i <= Len(last_hashes)})
\* MessageLogger::prefix_match_len: the zipped positions whose hashes agree.
prefix_match_len(last_hashes, new_hashes) ==
    Cardinality({i \in 1..Len(new_hashes) :
                    i <= Len(last_hashes) /\ new_hashes[i] = last_hashes[i]})

\* Mutant: every call writes the whole transcript.
MessageLoggerCallWhole(msgs, lg) ==
    LET new_hashes == [i \in 1..Len(msgs) |-> get_hash(msgs[i])]
        shown ==
            IF Len(new_hashes) < Len(lg.last_hashes)
               \/ prefix_match_len(lg.last_hashes, new_hashes) # Len(lg.last_hashes)
            THEN display_messages(display_history_cleared(lg), msgs)
            ELSE display_messages(lg, msgs)
    IN  {CbOk(msgs, [shown EXCEPT !.step = lg.step + 1, !.last_hashes = new_hashes], 0),
         CbErr(E("IOError"), msgs, lg, 0)}
\* impl Callback for MessageLogger: write, flush, count the step, keep the
\* hashes; a write or flush that fails returns the io error.
MessageLoggerCall(msgs, lg) ==
    LET new_hashes == [i \in 1..Len(msgs) |-> get_hash(msgs[i])]
        shown ==
            IF Len(new_hashes) < Len(lg.last_hashes)
               \/ prefix_match_len(lg.last_hashes, new_hashes) # Len(lg.last_hashes)
            THEN display_messages(display_history_cleared(lg), msgs)
            ELSE display_messages(lg, SubSeq(msgs, Len(lg.last_hashes) + 1, Len(msgs)))
    IN  {CbOk(msgs, [shown EXCEPT !.step = lg.step + 1, !.last_hashes = new_hashes], 0),
         CbErr(E("IOError"), msgs, lg, 0)}

\* Callback::call of the callback registered as `cb`.
call(cb, llm, st, lg) ==
    CASE cb = "SummarizeHistory" -> SummarizeHistoryCall(llm, st, lg)
      [] cb = "MessageLogger" -> MessageLoggerCall(st.messages, lg)

\* ------------------------------------------------------------------ agents
\* What AgentBuilder was given, with the transcript the run starts from and
\* the answers the backend is taken to give: [llm, tools, callbacks, stop,
\* initial, contents, choices, budget], budget being the number of tool calls
\* the backend may ask for over the run.
\* agent.rs tests::test_agent.
MockAgent ==
    [llm |-> "MockLLM", tools |-> {"double"}, callbacks |-> <<>>, stop |-> "SimpleStop",
     initial |-> <<User("do stuff")>>, contents |-> {}, choices |-> {},
     budget |-> MaxCalls]

\* An agent of FunctionalTool-adapted tools only, without callbacks, on a free
\* backend; `initial` may already satisfy the stop condition.
FunctionalInitials ==
    {<<User("do stuff")>>,
     <<User("do stuff"), Assistant("completed", <<>>)>>,
     <<System("subagent prompt"), User("task"),
       Assistant("text", <<ToolCall(0, "complete_task", <<"report">>)>>),
       Tool(0, "complete_task", "report")>>}
FunctionalAgent(stop, initial) ==
    [llm |-> "Free", tools |-> {"double", "complete_task", "memory_set_key"},
     callbacks |-> <<>>, stop |-> stop, initial |-> initial,
     contents |-> {"text", "completed"},
     choices |-> {<<"double", <<"123">>>>, <<"complete_task", <<"report">>>>,
                  <<"memory_set_key", <<"k1", "v1">>>>, <<"memory_set_key", <<"k1">>>>},
     budget |-> MaxCalls]

\* research.rs Orchestrator::new and the transcript Orchestrator::run starts.
OrchestratorAgent(task_desc) ==
    [llm |-> "Free",
     tools |-> {"complete_task", "summarize_history", "start_subagent", "wait_for_subagent",
                "memory_list_keys", "memory_get_key", "memory_set_key"},
     callbacks |-> <<"SummarizeHistory", "MessageLogger">>,
     stop |-> "TaskCompleted",
     initial |-> <<System("orchestrator prompt"), User(task_desc)>>,
     contents |-> {"text"},
     choices |-> {<<"complete_task", <<"report">>>>, <<"complete_task", <<>>>>,
                  <<"summarize_history", <<>>>>, <<"start_subagent", <<"subtask">>>>,
                  <<"wait_for_subagent", <<>>>>, <<"memory_list_keys", <<>>>>,
                  <<"memory_get_key", <<"k1">>>>, <<"memory_set_key", <<"k1", "v1">>>>,
                  <<"web_search", <<>>>>},
     budget |-> MaxCalls]

Agents ==
    {MockAgent}
    \cup {FunctionalAgent(s, t) : s \in {"SimpleStop", "TaskCompleted"}, t \in FunctionalInitials}
    \cup {OrchestratorAgent(t) : t \in {"task", "long task"}}

\* ------------------------------------------------------------------- state
VARIABLES
    agent,        \* the Agent that runs
    messages,     \* run's transcript
    pc,           \* where run is: loop, completion, tools, callbacks, returned, failed;
                  \* exited once Orchestrator::run is over
    next,         \* the CompletionResponse of the turn
    tool_idx,     \* the tool call of next.tool_calls being dispatched
    cb_idx,       \* the callback being run
    result,       \* what run returned
    memory,       \* the KVMemoryTool map
    running,      \* handle set: the sub-agents still running
    finished,     \* handle set: the sub-agents that ended, in completion order
    subagent_id,  \* StartSubAgent's counter
    logger,       \* MessageLogger: last_hashes, step, sink
    next_id,      \* the id the backend gives its next tool call
    turns,        \* iterations started
    requests,     \* completion requests sent
    events,       \* what the current iteration did so far, in order
    lock,         \* who holds the handle set's mutex: none, wait_for_subagent
    probe         \* inputs and outputs of an operation applied on its own

vars == <<agent, messages, pc, next, tool_idx, cb_idx, result, memory, running, finished,
          subagent_id, logger, next_id, turns, requests, events, lock, probe>>

Event(ev, id, name) == [ev |-> ev, id |-> id, name |-> name]
NoResponse == [content |-> "", tool_calls |-> <<>>]
NoProbe == [op |-> "none"]
St == [messages |-> messages, memory |-> memory, running |-> running,
       finished |-> finished, subagent_id |-> subagent_id]

\* Agent `a` built, with its tools and callbacks as constructed.
Built(a) ==
    /\ agent = a
    /\ next = NoResponse
    /\ tool_idx = 0
    /\ cb_idx = 0
    /\ result = [kind |-> "None", err |-> NoError]
    /\ memory = [k \in {} |-> ""]
    /\ running = {}
    /\ finished = <<>>
    /\ subagent_id = 0
    /\ logger = MessageLoggerNew
    /\ next_id = 1
    /\ turns = 0
    /\ requests = 0
    /\ events = <<>>
    /\ lock = "none"
\* run called on a.initial; nothing has happened yet.
Start(a) ==
    /\ Built(a)
    /\ messages = agent.initial
    /\ pc = "loop"
    /\ probe = NoProbe
Init == \E a \in Agents : Start(a)

\* Mutant: the condition tested after the body, as a do-while would.
LoopConditionAfterBody(stop, msgs) == turns = 0 \/ ~done(stop, msgs)
\* `while !self.stop_condition.done(&messages)`.
LoopCondition(stop, msgs) == ~done(stop, msgs)

\* Mutant: the Assistant message pushed without the response's tool calls.
push_assistant_text(msgs, r) == Append(msgs, Assistant(r.content, <<>>))
\* `messages.push(Message::Assistant(next.content, next.tool_calls.clone()))`.
push_assistant(msgs, r) == Append(msgs, Assistant(r.content, r.tool_calls))

\* Mutant: the calls of the turn taken from the back.
ToolCallAtReversed(calls, i) == calls[Len(calls) + 1 - i]
\* `for tool_call in &next.tool_calls`: the call dispatched at step i.
ToolCallAt(calls, i) == calls[i]
\* Mutant: the callbacks run last-registered first.
CallbackAtReversed(cbs, j) == cbs[Len(cbs) + 1 - j]
\* `for callback in &mut self.callbacks`: the callback run at step j.
CallbackAt(cbs, j) == cbs[j]

\* Where run goes once callback j returned Ok: the next callback, else the
\* top of the loop.
AfterCallback(msgs, cbs, j) ==
    IF j < Len(cbs) THEN [pc |-> "callbacks", tool_idx |-> 0, cb_idx |-> j + 1]
    ELSE [pc |-> "loop", tool_idx |-> 0, cb_idx |-> 0]
\* Mutant: leave the iteration as soon as a tool result satisfies the stop
\* condition.
AfterToolBreak(msgs, calls, i, cbs) ==
    IF done(agent.stop, msgs) THEN [pc |-> "loop", tool_idx |-> 0, cb_idx |-> 0]
    ELSE IF i < Len(calls) THEN [pc |-> "tools", tool_idx |-> i + 1, cb_idx |-> 0]
    ELSE AfterCallback(msgs, cbs, 0)
\* Where run goes once tool call i returned Ok: the next call, else the
\* callback chain.
AfterTool(msgs, calls, i, cbs) ==
    IF i < Len(calls) THEN [pc |-> "tools", tool_idx |-> i + 1, cb_idx |-> 0]
    ELSE AfterCallback(msgs, cbs, 0)

\* Mutant: the error is dropped and the loop goes on.
AbortIgnored(e) == [pc |-> "loop", result |-> [kind |-> "None", err |-> NoError]]
\* The `?` on a completion, a tool or a callback: run returns the error.
Abort(e) == [pc |-> "failed", result |-> [kind |-> "Err", err |-> e]]

\* The loop head: evaluate the stop condition; return the transcript, or send
\* the completion request of the next turn.
StopCheck ==
    /\ pc = "loop"
    /\ IF LoopCondition(agent.stop, messages)
       THEN /\ turns < MaxTurns
            /\ pc' = "completion"
            /\ turns' = turns + 1
            /\ requests' = requests + 1
            /\ events' = <<Event("stop", 0, "")>>
            /\ UNCHANGED result
       ELSE /\ pc' = "returned"
            /\ result' = [kind |-> "Ok", err |-> NoError]
            /\ events' = Append(events, Event("stop", 0, ""))
            /\ UNCHANGED <<turns, requests>>
    /\ UNCHANGED <<agent, messages, next, tool_idx, cb_idx, memory, running, finished,
                   subagent_id, logger, next_id, lock, probe>>

\* The backend answers: push the Assistant message, or return its error.
Completion ==
    /\ pc = "completion"
    /\ \E r \in completion(agent.llm, messages, agent.contents, agent.choices,
                           next_id, agent.budget - (next_id - 1)) :
        IF r.ok
        THEN LET to == AfterTool(messages, r.tool_calls, 0, agent.callbacks) IN
             /\ messages' = push_assistant(messages, r)
             /\ next' = [content |-> r.content, tool_calls |-> r.tool_calls]
             /\ next_id' = next_id + Len(r.tool_calls)
             /\ pc' = to.pc /\ tool_idx' = to.tool_idx /\ cb_idx' = to.cb_idx
             /\ events' = Append(events, Event("completion", 0, ""))
             /\ UNCHANGED result
        ELSE /\ pc' = Abort(r.err).pc /\ result' = Abort(r.err).result
             /\ UNCHANGED <<messages, next, next_id, tool_idx, cb_idx, events>>
    /\ UNCHANGED <<agent, memory, running, finished, subagent_id, logger, turns, requests,
                   lock, probe>>

\* The tool a dispatched call reaches, "" when none is registered under its
\* name.
Target(tools, tool_call) == IF tool_call.name \in tools THEN tool_call.name ELSE ""

\* `self.0.lock().await` of WaitForSubAgent::invoke_fn: the call takes the
\* handle set's mutex, and keeps it while it awaits join_next.
WaitEnter ==
    /\ pc = "tools"
    /\ Target(agent.tools, ToolCallAt(next.tool_calls, tool_idx)) = "wait_for_subagent"
    /\ lock = "none"
    /\ lock' = "wait_for_subagent"
    /\ UNCHANGED <<agent, messages, pc, next, tool_idx, cb_idx, result, memory, running,
                   finished, subagent_id, logger, next_id, turns, requests, events, probe>>

\* One pass of the tool loop: execute_tool_call on the next call of the turn.
\* wait_for_subagent runs with the mutex it took, start_subagent takes it for
\* the length of its spawn; the guard is dropped when the tool returns.
Dispatch ==
    /\ pc = "tools"
    /\ LET tool_call == ToolCallAt(next.tool_calls, tool_idx) IN
       /\ lock = (IF Target(agent.tools, tool_call) = "wait_for_subagent"
                  THEN "wait_for_subagent" ELSE "none")
       /\ lock' = "none"
       /\ \E o \in execute_tool_call(agent.tools, agent.llm, tool_call, St) :
           /\ memory' = o.st.memory
           /\ running' = o.st.running
           /\ finished' = o.st.finished
           /\ subagent_id' = o.st.subagent_id
           /\ requests' = requests + o.reqs
           /\ events' = IF tool_call.name \in agent.tools
                        THEN Append(events, Event("tool", tool_call.id, tool_call.name))
                        ELSE events
           /\ IF o.ok
              THEN LET to == AfterTool(o.st.messages, next.tool_calls, tool_idx, agent.callbacks) IN
                   /\ messages' = o.st.messages
                   /\ pc' = to.pc /\ tool_idx' = to.tool_idx /\ cb_idx' = to.cb_idx
                   /\ UNCHANGED result
              ELSE /\ pc' = Abort(o.err).pc /\ result' = Abort(o.err).result
                   /\ UNCHANGED <<messages, tool_idx, cb_idx>>
    /\ UNCHANGED <<agent, next, logger, next_id, turns, probe>>

\* One pass of the callback loop.
RunCallback ==
    /\ pc = "callbacks"
    /\ LET callback == CallbackAt(agent.callbacks, cb_idx) IN
       \E o \in call(callback, agent.llm, St, logger) :
        /\ logger' = o.logger
        /\ requests' = requests + o.reqs
        /\ events' = Append(events, Event("callback", cb_idx, callback))
        /\ IF o.ok
           THEN LET to == AfterCallback(o.messages, agent.callbacks, cb_idx) IN
                /\ messages' = o.messages
                /\ pc' = to.pc /\ tool_idx' = to.tool_idx /\ cb_idx' = to.cb_idx
                /\ UNCHANGED result
           ELSE /\ pc' = Abort(o.err).pc /\ result' = Abort(o.err).result
                /\ UNCHANGED <<messages, tool_idx, cb_idx>>
    /\ UNCHANGED <<agent, next, memory, running, finished, subagent_id, next_id, turns,
                   lock, probe>>

\* A spawned sub-agent's own run ends, with its transcript or with an error,
\* or its task dies (a JoinError for whoever joins it), while the parent is
\* still running.
ChildTranscriptEnd == Tool(1, "complete_task", "child report")
\* Mutant: the sub-agent's task holds the handle set as well.
ChildCapturesHandles == {"llm", "name", "task_prompt", "file", "subagents"}
\* What the `async move` block of a sub-agent captures.
ChildCaptures == {"llm", "name", "task_prompt", "file"}
ChildFinish ==
    /\ pc \notin {"returned", "failed"}
    /\ "subagents" \in ChildCaptures => lock = "none"
    /\ \E c \in running :
        \E out \in {[id |-> c, ok |-> TRUE, err |-> NoError, last |-> ChildTranscriptEnd],
                    [id |-> c, ok |-> FALSE, err |-> E("LLMResponseError"), last |-> NoMessage],
                    [id |-> c, ok |-> FALSE, err |-> E("TaskJoinError"), last |-> NoMessage]} :
            /\ running' = running \ {c}
            /\ finished' = Append(finished, out)
    /\ UNCHANGED <<agent, messages, pc, next, tool_idx, cb_idx, result, memory, subagent_id,
                   logger, next_id, turns, requests, events, lock, probe>>

\* The match on history.pop() that ends Orchestrator::run: the text of a final
\* complete_task result, else one of three workflow errors.
OrchestratorResult(history) ==
    IF history = <<>>
    THEN [kind |-> "Err", err |-> <<"AgentWorkflowError", "message history empty">>]
    ELSE IF Last(history).kind = "Tool" /\ Last(history).name = "complete_task"
    THEN [kind |-> "Text", err |-> NoError, text |-> Last(history).content]
    ELSE IF Last(history).kind = "Tool"
    THEN [kind |-> "Err", err |-> <<"AgentWorkflowError", "another tool call">>]
    ELSE [kind |-> "Err", err |-> <<"AgentWorkflowError", "not a tool call">>]

\* Mutant: the tasks still running are aborted, the finished ones stay.
shutdown_running(st) == [st EXCEPT !.running = {}]
\* JoinSet::shutdown, which the hook on_agent_start calls under the mutex and
\* which dropping the set amounts to: every task is aborted and removed, no
\* result is taken.
shutdown(st) == [st EXCEPT !.running = {}, !.finished = <<>>]

\* Orchestrator::run ends: the agent's error is passed on, or its transcript
\* is matched; run has consumed the orchestrator, so its tools and with them
\* the handle set are dropped.
OrchestratorReturn ==
    /\ "start_subagent" \in agent.tools
    /\ pc \in {"returned", "failed"}
    /\ pc' = "exited"
    /\ result' = IF pc = "failed" THEN result ELSE OrchestratorResult(messages)
    /\ running' = shutdown(St).running
    /\ finished' = shutdown(St).finished
    /\ UNCHANGED <<agent, messages, next, tool_idx, cb_idx, memory, subagent_id, logger,
                   next_id, turns, requests, events, lock, probe>>

Next == StopCheck \/ Completion \/ WaitEnter \/ Dispatch \/ RunCallback \/ ChildFinish

Spec == Init /\ [][Next]_vars

\* ------------------------------------------------------- sub-agent runs
\* The orchestrator on a backend that only delegates: it starts sub-agents,
\* waits for them and completes, with enough calls for two sub-agents and a
\* wait.
SubAgentOrchestrator ==
    [OrchestratorAgent("task") EXCEPT
        !.choices = {<<"start_subagent", <<"subtask">>>>, <<"wait_for_subagent", <<>>>>,
                     <<"complete_task", <<"report">>>>},
        !.budget = MaxSubCalls]
SubInit == Start(SubAgentOrchestrator)
SubSpec == SubInit /\ [][Next]_vars

\* Orchestrator::run as a whole: the agent's run, then the match on its
\* transcript and the drop of the orchestrator.
OrchestratorInit ==
    \E a \in {OrchestratorAgent("task"), OrchestratorAgent("long task"), SubAgentOrchestrator} :
        Start(a)
OrchestratorNext == Next \/ OrchestratorReturn
OrchestratorSpec == OrchestratorInit /\ [][OrchestratorNext]_vars

\* ------------------------------------------------ the compaction, applied
\* SummarizeHistory built with a keep_last of its own and handed a transcript
\* of its own, as a tool (summarize_history) and as a callback (call).
ProbeMessages ==
    {System("orchestrator prompt"), User("bulk text"), Assistant("text", <<>>),
     Tool(1, "double", "2 * 123 = 246")}
Outcome(ok, err, msgs, reqs) == [ok |-> ok, err |-> err, messages |-> msgs, reqs |-> reqs]
SummarizeInit ==
    /\ Built(OrchestratorAgent("task"))
    /\ pc = "probe"
    /\ messages \in SeqsUpTo(ProbeMessages, MaxLen)
    /\ \E n \in 0..MaxKeep :
        probe = [op |-> "input", keep_last |-> n, out |-> Outcome(TRUE, NoError, <<>>, 0)]
\* summarize_history(messages) of a SummarizeHistory with probe.keep_last.
ApplySummarize ==
    /\ pc = "probe" /\ probe.op = "input"
    /\ \E o \in summarize_history(agent.llm, probe.keep_last, St) :
        probe' = [probe EXCEPT !.op = "summarize_history",
                               !.out = Outcome(o.ok, o.err, o.st.messages, o.reqs)]
    /\ UNCHANGED <<agent, messages, pc, next, tool_idx, cb_idx, result, memory, running,
                   finished, subagent_id, logger, next_id, turns, requests, events, lock>>
\* call(messages) of the callback the orchestrator registers.
ApplyCallback ==
    /\ pc = "probe" /\ probe.op = "input" /\ probe.keep_last = KEEP_LAST
    /\ \E o \in SummarizeHistoryCall(agent.llm, St, logger) :
        probe' = [probe EXCEPT !.op = "SummarizeHistory",
                               !.out = Outcome(o.ok, o.err, o.messages, o.reqs)]
    /\ UNCHANGED <<agent, messages, pc, next, tool_idx, cb_idx, result, memory, running,
                   finished, subagent_id, logger, next_id, turns, requests, events, lock>>
SummarizeNext == ApplySummarize \/ ApplyCallback
SummarizeSpec == SummarizeInit /\ [][SummarizeNext]_vars
\* The compaction on transcripts of its caller's choosing, and inside runs.
CompactionInit == Init \/ SummarizeInit
CompactionNext == Next \/ SummarizeNext
CompactionSpec == CompactionInit /\ [][CompactionNext]_vars

\* ---------------------------------------------------- the logger, applied
\* One MessageLogger called again and again, each time on a transcript of its
\* caller's choosing; probe.calls keeps, per call, the transcript and how much
\* the sink held before it. A call that fails ends the run that made it.
LogMessages == {User("do stuff"), Assistant("text", <<>>)}
LoggerInit ==
    /\ Built(OrchestratorAgent("task"))
    /\ pc = "probe"
    /\ messages = <<>>
    /\ probe = [op |-> "logger", calls |-> <<>>]
LogCall ==
    /\ pc = "probe" /\ probe.op = "logger"
    /\ Len(probe.calls) < MaxLogCalls
    /\ \E t \in SeqsUpTo(LogMessages, MaxLogLen) :
        \E o \in MessageLoggerCall(t, logger) :
            IF o.ok
            THEN /\ messages' = o.messages
                 /\ logger' = o.logger
                 /\ probe' = [probe EXCEPT !.calls =
                                 Append(probe.calls, [messages |-> t, from |-> Len(logger.sink)])]
                 /\ UNCHANGED <<pc, result>>
            ELSE /\ pc' = Abort(o.err).pc /\ result' = Abort(o.err).result
                 /\ UNCHANGED <<messages, logger, probe>>
    /\ UNCHANGED <<agent, next, tool_idx, cb_idx, memory, running, finished, subagent_id,
                   next_id, turns, requests, events, lock>>
LoggerSpec == LoggerInit /\ [][LogCall]_vars

\* --------------------------------------------- the memory tools, applied
\* Two stores and three callers of the memory tools. Store 1 is the
\* orchestrator's KVMemoryTool; callers 1 and 2 both hold its list, get and
\* set tools (clones of one Arc) and may call them at the same time. Caller 3
\* is a sub-agent, on the transcript and the store it was built with. A call
\* takes the store's mutex, then does its work and lets go. probe.log keeps
\* the calls that returned, in the order they returned.
\* Mutant: the sub-agent is handed the tools of its parent's store.
SubAgentStoreShared(parent_store, fresh) == parent_store
\* `tools::KVMemoryTool::new()` inside the sub-agent's task: a store of its own.
SubAgentStore(parent_store, fresh) == fresh
\* Mutant: the map is reached without waiting for its mutex.
MutexIgnored(holder) == TRUE
\* `self.memory.lock().unwrap()`: the mutex is free.
MutexFree(holder) == holder = 0
NoCall == ToolCall(0, "", <<>>)
Caller(store, msgs) == [store |-> store, pc |-> "idle", call |-> NoCall, messages |-> msgs]
MemoryCalls(c) ==
    LET value == <<"v1", "v2", "v3">>[c] IN
    {<<"memory_set_key", <<"k1", value>>>>, <<"memory_set_key", <<"k2", value>>>>,
     <<"memory_get_key", <<"k1">>>>, <<"memory_list_keys", <<>>>>}
MemoryInit ==
    /\ Built(OrchestratorAgent("task"))
    /\ pc = "probe"
    /\ messages = <<>>
    /\ probe = [op |-> "memory",
                stores |-> <<memory, memory>>,
                holder |-> <<0, 0>>,
                callers |-> <<Caller(1, OrchestratorAgent("task").initial),
                              Caller(1, OrchestratorAgent("task").initial),
                              Caller(SubAgentStore(1, 2),
                                     <<System("subagent prompt"), User("subtask")>>)>>,
                started |-> 0,
                log |-> <<>>]
\* Caller c starts a call: it takes the mutex of its store.
MemLock(c) ==
    /\ pc = "probe" /\ probe.op = "memory"
    /\ probe.started < MaxMemOps
    /\ probe.callers[c].pc = "idle"
    /\ MutexFree(probe.holder[probe.callers[c].store])
    /\ \E ch \in MemoryCalls(c) :
        probe' = [probe EXCEPT !.started = @ + 1,
                               !.holder[probe.callers[c].store] = c,
                               !.callers[c].pc = "locked",
                               !.callers[c].call = ToolCall(probe.started + 1, ch[1], ch[2])]
    /\ UNCHANGED <<agent, messages, pc, next, tool_idx, cb_idx, result, memory, running,
                   finished, subagent_id, logger, next_id, turns, requests, events, lock>>
\* Caller c's call does its work on the map and returns; the guard is dropped.
MemApply(c) ==
    /\ pc = "probe" /\ probe.op = "memory"
    /\ probe.callers[c].pc = "locked"
    /\ LET me == probe.callers[c]
           st == [St EXCEPT !.memory = probe.stores[me.store], !.messages = me.messages]
       IN  \E o \in invoke(me.call.name, agent.llm, me.call, st) :
            probe' = [probe EXCEPT
                        !.stores[me.store] = o.st.memory,
                        !.holder[me.store] = 0,
                        !.callers[c] = Caller(me.store, o.st.messages),
                        !.log = Append(@, [caller |-> c, store |-> me.store, call |-> me.call,
                                           ok |-> o.ok, message |-> Last(o.st.messages),
                                           before |-> probe.stores[me.store],
                                           after |-> o.st.memory])]
    /\ UNCHANGED <<agent, messages, pc, next, tool_idx, cb_idx, result, memory, running,
                   finished, subagent_id, logger, next_id, turns, requests, events, lock>>
MemoryNext == \E c \in 1..3 : MemLock(c) \/ MemApply(c)
MemorySpec == MemoryInit /\ [][MemoryNext]_vars

\* ------------------------------------- the completion backend, applied
\* What the chat API can answer: a list of choices, each a message with a
\* role, an optional content and an optional list of tool calls (id, function
\* name, arguments as raw text).
\* Option<T>: None, or Some(x).
None == <<>>
Some(x) == <<x>>
Roles == {"system", "user", "assistant", "tool", "function"}
ApiToolCalls ==
    {[id |-> "call_a", function |-> [name |-> "memory_get_key", arguments |-> "{key: k1}"]],
     [id |-> "call_b", function |-> [name |-> "complete_task", arguments |-> "{result"]]}
ApiMessage(role, content, tool_calls) ==
    [role |-> role, content |-> content, tool_calls |-> tool_calls]
FirstChoices ==
    {ApiMessage(r, c, t) : r \in Roles, c \in {None, Some("text")},
                           t \in {None} \cup {Some(q) : q \in SeqsUpTo(ApiToolCalls, MaxToolCalls)}}
OtherChoices == {ApiMessage(r, c, None) : r \in {"user", "assistant"}, c \in {None, Some("text")}}
ApiResponses ==
    {<<>>} \cup {<<f>> \o rest : f \in FirstChoices,
                                  rest \in SeqsUpTo(OtherChoices, MaxChoices - 1)}

\* The check of the response in OpenAI::completion and the conversion of an
\* accepted response.
CompletionOk(content, tool_calls) ==
    [ok |-> TRUE, err |-> NoError, content |-> content, tool_calls |-> tool_calls]
CompletionErr(detail) ==
    [ok |-> FALSE, err |-> <<"LLMResponseError", detail>>, content |-> "", tool_calls |-> <<>>]
\* The role the first choice is tested against.
OpenAIExpectedRole == "user"
OpenAICompletion(choices) ==
    IF choices = <<>> THEN CompletionErr("choices is empty")
    ELSE IF choices[1].role # OpenAIExpectedRole
         THEN CompletionErr("expected role to be assistant")
    ELSE IF choices[1].content = None THEN CompletionErr("content is empty")
    ELSE CompletionOk(choices[1].content[1],
                      IF choices[1].tool_calls = None THEN <<>>
                      ELSE LET calls == choices[1].tool_calls[1] IN
                           [i \in 1..Len(calls) |->
                               ToolCall(calls[i].id, calls[i].function.name,
                                        calls[i].function.arguments)])

CompletionInit ==
    /\ Built(OrchestratorAgent("task"))
    /\ pc = "probe"
    /\ messages = <<>>
    /\ \E res \in ApiResponses : probe = [op |-> "completion", choices |-> res, out |-> None]
Respond ==
    /\ probe.op = "completion"
    /\ probe.out = None
    /\ probe' = [probe EXCEPT !.out = Some(OpenAICompletion(probe.choices))]
    /\ UNCHANGED <<agent, messages, pc, next, tool_idx, cb_idx, result, memory, running,
                   finished, subagent_id, logger, next_id, turns, requests, events, lock>>
CompletionSpec == CompletionInit /\ [][Respond]_vars

\* ------------------------------------------------------------ the claims
\* What the current iteration did, by kind.
ToolEvents == SelectSeq(events, LAMBDA e : e.ev = "tool")
CallbackEvents == SelectSeq(events, LAMBDA e : e.ev = "callback")
StopEvents == SelectSeq(events, LAMBDA e : e.ev = "stop")
Ids(calls) == [i \in 1..Len(calls) |-> calls[i].id]
IsPrefix(s, t) == Len(s) <= Len(t) /\ SubSeq(t, 1, Len(s)) = s
Hashes(msgs) == [i \in 1..Len(msgs) |-> get_hash(msgs[i])]

\* C1: run returns a transcript only from the loop head, only when the stop
\* condition holds on the transcript, and it returns that very transcript;
\* when the condition holds at the loop head run does return (it sends no
\* further request); a run whose initial transcript already satisfies the
\* condition returns it unchanged with no completion request sent; while the
\* condition is false run does not return.
RunReturnsIffStop ==
    /\ [](pc = "returned" =>
            /\ result.kind = "Ok"
            /\ done(agent.stop, messages)
            /\ (done(agent.stop, agent.initial) =>
                    messages = agent.initial /\ requests = 0 /\ turns = 0))
    /\ [][/\ (pc' = "returned" /\ pc # "returned") =>
                pc = "loop" /\ done(agent.stop, messages) /\ messages' = messages
          /\ (pc = "loop" /\ done(agent.stop, messages)) =>
                pc' \in {"loop", "returned"} /\ requests' = requests
          /\ (pc = "loop" /\ ~done(agent.stop, messages)) => pc' # "returned"
          /\ pc = "returned" => pc' = "returned"]_vars
\* A run that returned after at least two iterations.
RunReturnedAfterTurns == pc = "returned" /\ turns >= 2 /\ requests >= 2

\* C2: the stop condition is consulted at the loop head only: an iteration
\* that has started never returns before every tool call of the turn was
\* dispatched and every callback ran, even when the condition already holds
\* mid-iteration.
StopCheckedOncePerIteration ==
    /\ [](/\ Len(StopEvents) <= 2
          /\ \A i \in 1..Len(events) :
                events[i].ev = "stop" =>
                    \/ i = 1
                    \/ /\ i = Len(events)
                       /\ pc = "returned"
                       /\ Len(ToolEvents) = Len(next.tool_calls)
                       /\ Len(CallbackEvents) = Len(agent.callbacks))
    /\ [][(pc \in {"completion", "tools", "callbacks"}) => (pc' # "returned")]_vars
\* Mid-turn, after a complete_task result, with a further call still to go.
StopHoldsMidIteration ==
    /\ pc = "tools"
    /\ tool_idx = 2
    /\ agent.stop = "TaskCompleted"
    /\ done(agent.stop, messages)

\* C3: the tool calls of a turn are dispatched once each, in response order,
\* one at a time, and all of them before the first callback, also after an
\* earlier call of the turn rewrote the transcript.
DispatchInResponseOrder ==
    /\ IsPrefix(Ids(ToolEvents), Ids(next.tool_calls))
    /\ pc = "tools" => Len(ToolEvents) = tool_idx - 1
    /\ \A i, j \in 1..Len(events) :
          (events[i].ev = "callback" /\ events[j].ev = "tool") => j < i
    /\ (CallbackEvents # <<>> \/ pc \in {"callbacks", "loop", "returned"}) =>
          (turns > 0 => Ids(ToolEvents) = Ids(next.tool_calls))
\* Two calls dispatched in a turn whose first call compacted the transcript.
DispatchedAfterRewrite ==
    /\ Len(ToolEvents) = 2
    /\ ToolEvents[1].name = "summarize_history"
    /\ Len(messages) >= 3
    /\ messages[3].content = "summary"

\* The Tool messages of a transcript that answer one of `calls`, in order.
Answers(msgs, calls) ==
    SelectSeq(msgs, LAMBDA m : m.kind = "Tool" /\ \E i \in 1..Len(calls) : calls[i].id = m.id)

\* C4: when the completion request of the next turn is sent, every tool call
\* of the preceding Assistant message is answered in the transcript by a Tool
\* message with the call's id, in call order.
EveryCallAnsweredAtRequest ==
    (pc = "completion" /\ turns > 1) =>
        Ids(Answers(messages, next.tool_calls)) = Ids(next.tool_calls)

\* The last Assistant message before position i of a transcript (0: none).
AssistantBefore(msgs, i) ==
    LET before == {j \in 1..(i - 1) : msgs[j].kind = "Assistant"}
    IN  IF before = {} THEN 0 ELSE CHOOSE j \in before : \A k \in before : k <= j

\* C5: at the end of an iteration every Tool message carries the id of a call
\* of the most recent Assistant message before it.
ToolMessagesAnswerLastAssistant ==
    (pc = "loop" /\ turns > 0) =>
        \A i \in 1..Len(messages) :
            messages[i].kind = "Tool" =>
                LET a == AssistantBefore(messages, i)
                IN  /\ a > 0
                    /\ \E c \in 1..Len(messages[a].tool_calls) :
                          messages[a].tool_calls[c].id = messages[i].id

\* C6: an error of the backend, of a tool or of a callback ends run there:
\* run returns the error and no transcript, nothing runs afterwards (no tool
\* call, callback, request or retry), and what earlier steps wrote (memory,
\* spawned sub-agents, log output) stays as it was.
ErrorAbortsRun ==
    /\ [](pc = "failed" =>
            /\ result.kind = "Err" /\ result.err # NoError
            /\ (tool_idx = 0 /\ cb_idx = 0) => Len(events) = 1
            /\ tool_idx > 0 => Len(ToolEvents) <= tool_idx /\ CallbackEvents = <<>>
            /\ cb_idx > 0 => Len(CallbackEvents) = cb_idx)
    /\ [][/\ pc = "failed" => vars' = vars
          /\ (pc' = "failed" /\ pc # "failed") =>
                /\ result'.kind = "Err"
                /\ memory' = memory /\ running' = running /\ logger' = logger
                /\ subagent_id' >= subagent_id
                /\ turns' = turns /\ next_id' = next_id
          /\ (pc = "tools" /\ \A o \in execute_tool_call(agent.tools, agent.llm,
                                        next.tool_calls[tool_idx], St) : ~o.ok) =>
                \/ UNCHANGED <<pc, tool_idx, events, messages, result>>
                \/ /\ pc' = "failed"
                   /\ \E o \in execute_tool_call(agent.tools, agent.llm,
                                      next.tool_calls[tool_idx], St) :
                         result' = [kind |-> "Err", err |-> o.err]]_vars
\* A run that failed after a memory write, a spawn and a logged iteration.
FailedAfterSideEffects ==
    /\ pc = "failed"
    /\ "k1" \in DOMAIN memory
    /\ subagent_id > 0
    /\ logger.step > 0

\* C7: a call to a tool that is not registered ends run with
\* ToolDoesNotExist(name): nothing is invoked for it, the later calls of the
\* turn and the callbacks do not run, the earlier calls of the turn have run.
UnknownToolAborts ==
    /\ [](result.err[1] = "ToolDoesNotExist" =>
            /\ pc = "failed" /\ result.kind = "Err"
            /\ next.tool_calls[tool_idx].name = result.err[2]
            /\ result.err[2] \notin agent.tools
            /\ Ids(ToolEvents) = SubSeq(Ids(next.tool_calls), 1, tool_idx - 1)
            /\ CallbackEvents = <<>>)
    /\ [][(pc = "tools" /\ next.tool_calls[tool_idx].name \notin agent.tools) =>
            \/ UNCHANGED <<pc, tool_idx, events, messages, result>>
            \/ /\ pc' = "failed"
               /\ result' = [kind |-> "Err",
                             err |-> <<"ToolDoesNotExist", next.tool_calls[tool_idx].name>>]
               /\ UNCHANGED <<events, memory, running, finished, subagent_id, logger,
                              requests>>]_vars
\* The second call of a turn named an unregistered tool after a memory write.
UnknownToolAfterEarlierCall ==
    /\ result.err = <<"ToolDoesNotExist", "web_search">>
    /\ tool_idx = 2
    /\ Len(ToolEvents) = 1
    /\ "k1" \in DOMAIN memory

\* C8: a FunctionalTool invoked through the Tool adapter returns the input
\* transcript with the one message of invoke_fn appended, the earlier messages
\* as they were; when invoke_fn fails nothing is appended and run gets the error.
FunctionalToolAppendsOne ==
    [][(/\ pc = "tools"
        /\ events' # events
        /\ next.tool_calls[tool_idx].name \in FunctionalTools \cap agent.tools) =>
         LET tool_call == next.tool_calls[tool_idx]
             rs == invoke_fn(tool_call.name, tool_call, St)
         IN  IF pc' = "failed"
             THEN /\ messages' = messages
                  /\ \E r \in rs : ~r.ok /\ result'.err = r.err
             ELSE /\ \E r \in rs : r.ok /\ messages' = Append(messages, r.msg)
                  /\ Last(messages').kind = "Tool"
                  /\ Last(messages').id = tool_call.id]_vars
\* A memory_get_key call has just been answered.
FunctionalToolAnswered ==
    /\ ToolEvents # <<>>
    /\ Last(ToolEvents).name = "memory_get_key"
    /\ pc # "failed"
    /\ Last(messages).kind = "Tool"
    /\ Last(messages).name = "memory_get_key"

\* An agent of FunctionalTool-adapted tools only and without callbacks.
FunctionalOnly == agent.callbacks = <<>> /\ agent.tools \subseteq FunctionalTools
\* The transcript test_agent asserts.
MockTranscript ==
    <<User("do stuff"),
      Assistant("tool call", <<ToolCall(1, "double", <<"123">>)>>),
      Tool(1, "double", "2 * 123 = 246"),
      Assistant("tool call recieved", <<>>),
      Assistant("completed", <<>>)>>

\* C9: in an agent of functional tools without callbacks the transcript only
\* grows: an iteration appends the Assistant message and then one Tool message
\* per call, in call order; the mock scenario returns the five messages User,
\* Assistant(1 call), Tool, Assistant, Assistant.
FunctionalAgentAppendOnly ==
    /\ [](FunctionalOnly =>
            /\ IsPrefix(agent.initial, messages)
            /\ (pc \in {"loop", "returned"} /\ turns > 0) =>
                  LET n == Len(next.tool_calls)
                      a == Len(messages) - n
                  IN  /\ Len(messages) = Len(agent.initial) + turns + (next_id - 1)
                      /\ messages[a] = Assistant(next.content, next.tool_calls)
                      /\ \A i \in 1..n :
                            /\ messages[a + i].kind = "Tool"
                            /\ messages[a + i].id = next.tool_calls[i].id
                            /\ messages[a + i].name = next.tool_calls[i].name
            /\ (agent = MockAgent) =>
                  /\ pc # "failed"
                  /\ pc = "returned" => messages = MockTranscript /\ Len(messages) = 5)
    /\ [][FunctionalOnly => IsPrefix(messages, messages')]_vars
\* test_agent has returned.
MockRunReturned == agent = MockAgent /\ pc = "returned" /\ turns = 3

\* C10: the callbacks run once each per iteration, in registration order,
\* after every tool call of the iteration; each gets the transcript the one
\* before it returned, and the stop condition is evaluated on what the last
\* one returned.
CallbackChainInOrder ==
    /\ [](/\ [i \in 1..Len(CallbackEvents) |-> CallbackEvents[i].name]
                = SubSeq(agent.callbacks, 1, Len(CallbackEvents))
          /\ CallbackEvents # <<>> =>
                /\ Ids(ToolEvents) = Ids(next.tool_calls)
                /\ \A i \in 1..Len(events) :
                      events[i].ev = "tool" => i <= 2 + Len(next.tool_calls)
          /\ (pc \in {"loop", "returned"} /\ turns > 0) =>
                /\ Len(CallbackEvents) = Len(agent.callbacks)
                /\ (agent.callbacks # <<>> /\ Last(agent.callbacks) = "MessageLogger") =>
                      logger.last_hashes = Hashes(messages) /\ logger.step = turns)
    /\ [][(pc = "callbacks" /\ events' # events /\ pc' # "failed") =>
            \E o \in call(agent.callbacks[cb_idx], agent.llm, St, logger) :
                o.ok /\ messages' = o.messages /\ logger' = o.logger]_vars
\* The first iteration ended with the SummarizeHistory callback having
\* compacted the transcript and the logger having logged the result.
CallbacksRanWithCompaction ==
    /\ pc = "loop"
    /\ turns = 1
    /\ Len(CallbackEvents) = 2
    /\ \A i \in 1..Len(ToolEvents) : ToolEvents[i].name # "summarize_history"
    /\ messages[3].content = "summary"

\* C11: summarize_history of a SummarizeHistory built with keep_last = N
\* returns a transcript of fewer than 2 + N messages as it is, without a
\* completion request. On any longer one it sends exactly one request, which
\* advertises no tool, and what it returns on the backend's answer is the
\* first two messages, one Assistant message without tool calls, and the last
\* N messages: 3 + N messages; a failed request is returned as its error.
SummarizeHistoryShape ==
    probe.op = "summarize_history" =>
        LET n == probe.keep_last
            len == Len(messages)
            out == probe.out
        IN  IF len < 2 + n
            THEN out.ok /\ out.messages = messages /\ out.reqs = 0
            ELSE /\ out.reqs = 1
                 /\ SummaryRequest(Append(SubSeq(messages, 1, len - n), User(PROMPT))).tools = <<>>
                 /\ ~out.ok => out.err = E("LLMResponseError")
                 /\ out.ok =>
                      /\ Len(out.messages) = 3 + n
                      /\ SubSeq(out.messages, 1, 2) = SubSeq(messages, 1, 2)
                      /\ out.messages[3].kind = "Assistant"
                      /\ out.messages[3].tool_calls = <<>>
                      /\ SubSeq(out.messages, 4, 3 + n) = SubSeq(messages, len - n + 1, len)
\* A transcript of exactly 2 + N messages, N > 0, was compacted.
SummarizedAtMinimumLength ==
    /\ probe.op = "summarize_history"
    /\ probe.keep_last > 0
    /\ Len(messages) = 2 + probe.keep_last
    /\ probe.out.ok /\ probe.out.reqs = 1
    /\ Len(probe.out.messages) = 3 + probe.keep_last

\* C12: the SummarizeHistory callback runs the compaction exactly when the
\* words of the transcript sum to more than 5000; at 5000 or fewer it returns
\* the transcript as it is and sends no request.
CallbackCompactsAboveLimit ==
    probe.op = "SummarizeHistory" =>
        LET total == SumTokens(messages)
            out == probe.out
        IN  /\ total <= 5000 => out.ok /\ out.messages = messages /\ out.reqs = 0
            /\ total > 5000 =>
                 /\ out \in {Outcome(o.ok, o.err, IF o.ok THEN o.st.messages ELSE messages, o.reqs) :
                               o \in summarize_history(agent.llm, 2, St)}
                 /\ Len(messages) >= 4 =>
                      /\ out.reqs = 1
                      /\ out.ok => out.messages[3] = Assistant("summary", <<>>)
\* A transcript of exactly 5000 words, long enough to be compacted, came back
\* as it was.
CallbackAtExactLimit ==
    /\ probe.op = "SummarizeHistory"
    /\ SumTokens(messages) = 5000
    /\ Len(messages) >= 4
    /\ probe.out.ok /\ probe.out.reqs = 0 /\ probe.out.messages = messages

\* What call k of the logger wrote, the transcript it was given, and the
\* transcript of the call before it (none before the first).
LogSegment(k) ==
    SubSeq(logger.sink, probe.calls[k].from + 1,
           IF k < Len(probe.calls) THEN probe.calls[k + 1].from ELSE Len(logger.sink))
LogGiven(k) == IF k = 0 THEN <<>> ELSE probe.calls[k].messages
LogSection(n, msgs) ==
    <<Entry("step", n, NoMessage)>> \o [i \in 1..Len(msgs) |-> Entry("msg", n, msgs[i])]
        \o <<Entry("rule", n, NoMessage)>>
IsMsg(e) == e.tag = "msg"
LogWritten(entries) ==
    LET shown == SelectSeq(entries, IsMsg) IN [i \in 1..Len(shown) |-> shown[i].msg]
ProperExtension(s, t) == Len(s) < Len(t) /\ SubSeq(t, 1, Len(s)) = s
ExtensionsUpTo(k) == \A j \in 2..k : ProperExtension(LogGiven(j - 1), LogGiven(j))

\* C13: when each transcript the logger is called on properly extends the
\* one of the call before, call k writes one section holding exactly the
\* messages beyond the length of call k-1's transcript, no call (the first
\* included) writes the history-cleared marker, and the calls together have
\* written every message of the last transcript exactly once, in order.
LoggerWritesExtensionsOnce ==
    probe.op = "logger" =>
        \A k \in 1..Len(probe.calls) :
            ExtensionsUpTo(k) =>
                /\ LogSegment(k) =
                      LogSection(k - 1, SubSeq(LogGiven(k), Len(LogGiven(k - 1)) + 1,
                                               Len(LogGiven(k))))
                /\ LogWritten(SubSeq(logger.sink, 1, probe.calls[k].from + Len(LogSegment(k))))
                      = LogGiven(k)
\* Three calls, each on a proper extension of the transcript before, the
\* first of them not empty.
LoggedThreeExtensions ==
    /\ probe.op = "logger"
    /\ Len(probe.calls) = 3
    /\ LogGiven(1) # <<>>
    /\ ExtensionsUpTo(3)
    /\ LogWritten(logger.sink) = LogGiven(3)

\* A transcript that is no extension of the one before: shorter, or
\* different at a position within the earlier one's length.
Diverges(prev, cur) ==
    \/ Len(cur) < Len(prev)
    \/ \E i \in 1..Len(prev) : i <= Len(cur) /\ cur[i] # prev[i]
\* C14: a call of the logger writes the history-cleared marker exactly when
\* its transcript is no extension of the one of the call before, and then the
\* marker is followed by one section holding the whole new transcript.
LoggerClearsOnDivergence ==
    probe.op = "logger" =>
        \A k \in 1..Len(probe.calls) :
            LET cleared == \E i \in 1..Len(LogSegment(k)) : LogSegment(k)[i].tag = "cleared" IN
            /\ cleared <=> Diverges(LogGiven(k - 1), LogGiven(k))
            /\ cleared =>
                 LogSegment(k) = <<Entry("cleared", k - 1, NoMessage)>>
                                    \o LogSection(k - 1, LogGiven(k))
\* A call on a transcript as long as the one before, differing from it in
\* its last message only, wrote the marker and the whole transcript.
LoggedDivergenceAtLastPosition ==
    /\ probe.op = "logger"
    /\ Len(probe.calls) >= 2
    /\ LET k == Len(probe.calls) IN
        /\ Len(LogGiven(k)) = Len(LogGiven(k - 1))
        /\ Len(LogGiven(k)) >= 2
        /\ \A i \in 1..Len(LogGiven(k)) :
              (LogGiven(k)[i] = LogGiven(k - 1)[i]) <=> (i < Len(LogGiven(k)))
        /\ LogSegment(k)[1].tag = "cleared"
        /\ LogWritten(LogSegment(k)) = LogGiven(k)

\* The call being dispatched, and whether this step is wait_for_subagent
\* taking a finished task out of the handle set.
CurrentCall == ToolCallAt(next.tool_calls, tool_idx)
WaitCollects ==
    /\ pc = "tools"
    /\ lock = "wait_for_subagent"
    /\ finished # <<>>
    /\ lock' = "none"

\* C15: when wait_for_subagent collects a sub-agent whose run returned on a
\* last message that is its complete_task result, the call succeeds with a
\* Tool message named wait_for_subagent that carries the child's result text;
\* in particular it is no AgentWorkflowError.
WaitReturnsChildResult ==
    [][(WaitCollects /\ Head(finished).ok /\ TaskCompleted(<<Head(finished).last>>))
          => (/\ pc' # "failed"
              /\ Last(messages') = Tool(CurrentCall.id, "wait_for_subagent",
                                        Head(finished).last.content))]_vars

\* C16: start_subagent does not wait for the child it spawns. Whenever the
\* call is up it finds the mutex free and can answer, whatever the sub-agents
\* spawned before are doing; when it answers, its acknowledgement is appended,
\* the parent goes on to its next step, and the new child is in the handle
\* set as a task still running. Until then only sub-agents move.
StartSubAgentNeverWaits ==
    [][(pc = "tools" /\ Target(agent.tools, CurrentCall) = "start_subagent")
          => /\ lock = "none"
             /\ \E o \in execute_tool_call(agent.tools, agent.llm, CurrentCall, St) : o.ok
             /\ \/ UNCHANGED <<pc, tool_idx, messages, subagent_id, result>>
                \/ /\ pc' = "failed"
                   /\ result'.err \in {E("IOError"), E("JsonError")}
                   /\ UNCHANGED <<running, finished, messages>>
                \/ /\ messages' = Append(messages,
                                       Tool(CurrentCall.id, "start_subagent",
                                            "Research sub-agent started for task: subtask"))
                   /\ pc' \in {"tools", "callbacks"}
                   /\ subagent_id \notin running
                   /\ running' = running \cup {subagent_id}
                   /\ finished' = finished
                   /\ result' = result]_vars
\* The parent is in its next iteration, the acknowledgement in its
\* transcript, and the child it started has not finished.
ParentAheadOfRunningChild ==
    /\ agent = SubAgentOrchestrator
    /\ turns = 2 /\ pc = "completion"
    /\ running = {0} /\ finished = <<>>
    /\ \E i \in 1..Len(messages) : messages[i].name = "start_subagent"

\* C17: a wait_for_subagent that finds the handle set empty returns at once,
\* with a Tool message that is no error, and the set is still empty; one that
\* finds tasks in it, none of them finished, stays where it is until a task
\* finishes, and returns only by taking a finished task out.
WaitBlocksUntilCompletion ==
    [][(pc = "tools" /\ lock = "wait_for_subagent")
          => /\ (running = {} /\ finished = <<>>)
                  => /\ pc' \in {"tools", "callbacks"}
                     /\ messages' = Append(messages,
                                        Tool(CurrentCall.id, "wait_for_subagent",
                                             "no sub-agents are currently active"))
                     /\ running' = {} /\ finished' = <<>>
             /\ (running # {} /\ finished = <<>>)
                  => /\ execute_tool_call(agent.tools, agent.llm, CurrentCall, St) = {}
                     /\ UNCHANGED <<pc, tool_idx, messages, result, lock>>
                     /\ finished' # <<>>
             /\ lock' = "none" => (running \cup {f.id : f \in {finished[i] : i \in 1..Len(finished)}} = {}
                                    \/ finished' = Tail(finished))]_vars
\* A wait on the empty set has answered, and a later wait is held up by a
\* sub-agent that has not finished.
WaitHeldUpAfterEmptyWait ==
    /\ \E i \in 1..Len(messages) :
          /\ messages[i].name = "wait_for_subagent"
          /\ messages[i].content = "no sub-agents are currently active"
    /\ pc = "tools" /\ lock = "wait_for_subagent"
    /\ running # {} /\ finished = <<>>

HandleIds == running \cup {finished[i].id : i \in 1..Len(finished)}
HandleSetSize == Cardinality(running) + Len(finished)
StartSucceeds ==
    /\ pc = "tools" /\ Target(agent.tools, CurrentCall) = "start_subagent"
    /\ subagent_id' = subagent_id + 1
    /\ pc' # "failed"

\* C19: the handle set is empty when the run begins; a start_subagent that
\* succeeds adds exactly one task, a wait_for_subagent that collects a
\* finished task takes exactly one out, whether it then answers with a result
\* or an error, and no other step changes how many tasks the set holds.
HandleSetCounts ==
    [][/\ turns = 0 => HandleSetSize = 0
       /\ HandleSetSize' = HandleSetSize + (IF StartSucceeds THEN 1 ELSE 0)
                                         - (IF WaitCollects THEN 1 ELSE 0)]_vars
\* Two sub-agents were started and both finished; a wait collected one, which
\* had failed, and returned its error; the other is still in the set.
TwoStartedOneCollected ==
    /\ subagent_id = 2
    /\ HandleSetSize = 1 /\ Len(finished) = 1
    /\ pc = "failed"
    /\ result.err = E("LLMResponseError")
    /\ Last(events).name = "wait_for_subagent"

\* C20: a wait_for_subagent that collects takes the task that finished
\* first, whatever the order the tasks were spawned in, and leaves the tasks
\* still running in the set; the error it returns is that task's. A task taken
\* out is gone for good: no step puts back an id, and new ids are larger than
\* every id handed out before.
WaitTakesFirstFinished ==
    [][/\ WaitCollects =>
            /\ finished' = Tail(finished)
            /\ running' = running
            /\ ~Head(finished).ok => result'.err = Head(finished).err
       /\ \A id \in HandleIds : id < subagent_id
       /\ Cardinality(HandleIds) = HandleSetSize
       /\ HandleIds' \subseteq HandleIds \cup {subagent_id}
       /\ subagent_id' >= subagent_id]_vars
\* The sub-agent spawned second was collected while the one spawned first
\* was still running.
SecondSpawnedCollectedFirst ==
    /\ subagent_id = 2
    /\ running = {0} /\ finished = <<>>
    /\ pc = "failed"
    /\ Last(events).name = "wait_for_subagent"

\* C21: a sub-agent that ends, failed or not, leaves the parent's run as it
\* is; when wait_for_subagent collects one whose run returned an error or
\* whose task failed to join, the parent's run fails with that error, its
\* transcript unchanged; and a join error reaches the parent by no other way.
ChildFailureSurfacesAtWait ==
    [][/\ (running' # running /\ running' \subseteq running)
            => UNCHANGED <<agent, messages, pc, next, tool_idx, cb_idx, result, memory,
                           logger, next_id, turns, requests, events, lock>>
       /\ (WaitCollects /\ ~Head(finished).ok)
            => /\ pc' = "failed"
               /\ result' = [kind |-> "Err", err |-> Head(finished).err]
               /\ messages' = messages
       /\ (pc # "failed" /\ pc' = "failed" /\ result'.err = E("TaskJoinError"))
            => WaitCollects]_vars
\* The parent ran a whole iteration and more before a wait collected a
\* sub-agent whose task had failed to join, and failed with that error.
ParentFailedOnCollectedChild ==
    /\ turns >= 2
    /\ pc = "failed"
    /\ result.err = E("TaskJoinError")
    /\ Last(events).name = "wait_for_subagent"

\* The step that ends Orchestrator::run, and a task leaving the handle set
\* without having been collected by a wait.
Exits == pc \in {"returned", "failed"} /\ pc' = "exited"
TaskDropped ==
    /\ ~WaitCollects
    /\ \E id \in HandleIds : id \notin (running' \cup {finished'[i].id : i \in 1..Len(finished')})

\* C22: when the orchestrator shuts down, at the end of Orchestrator::run,
\* every task still in the handle set is dropped and the set is empty, no
\* result having been collected; a sub-agent that failed and was not waited
\* for raises no error there, run's outcome being the agent's alone; and no
\* other step takes a task out of the set that no wait collected.
ShutdownDropsEveryTask ==
    [][/\ Exits =>
            /\ running' = {} /\ finished' = <<>>
            /\ UNCHANGED <<messages, subagent_id, lock>>
            /\ pc = "failed" => result' = result
            /\ pc = "returned" => result' = OrchestratorResult(messages)
       /\ TaskDropped => Exits]_vars
\* The orchestrator completed without ever waiting; the two sub-agents it
\* had started were dropped at the end of its run, which returned its text.
ExitedWithoutWaiting ==
    /\ pc = "exited"
    /\ subagent_id = 2
    /\ running = {} /\ finished = <<>>
    /\ \A i \in 1..Len(messages) : messages[i].name # "wait_for_subagent"
    /\ result.kind = "Text"

\* A start_subagent call whose arguments parse is being answered.
StartTakesNumber ==
    /\ pc = "tools" /\ Target(agent.tools, CurrentCall) = "start_subagent"
    /\ args(CurrentCall, 1)
    /\ events' # events

\* C23: the number k of subagent_<k> is 0 for the first start_subagent and
\* grows by one with every start_subagent whose arguments parse, also with
\* one that then fails on its log file, and with no other step; a start that
\* succeeds spawns its child under the number it took. So the sub-agents in
\* the handle set carry pairwise distinct numbers, all below the counter.
SubAgentNamesDistinct ==
    [][/\ turns = 0 => subagent_id = 0
       /\ subagent_id' = subagent_id + (IF StartTakesNumber THEN 1 ELSE 0)
       /\ (StartTakesNumber /\ pc' # "failed") =>
            (subagent_id \notin HandleIds /\ running' = running \cup {subagent_id})
       /\ \A id \in HandleIds : id < subagent_id
       /\ Cardinality(HandleIds) = HandleSetSize]_vars
\* subagent_0 runs, the start that took number 1 failed on its log file,
\* and the counter stands at 2.
NumberTakenByFailedStart ==
    /\ pc = "failed" /\ result.err = E("IOError")
    /\ subagent_id = 2
    /\ HandleIds = {0}

\* Of the memory calls that returned before the i-th: the sets of key k on
\* the store of the i-th, the keys set on that store, and the latest of a
\* non-empty set of positions.
SetsBefore(i, k) ==
    {j \in 1..(i - 1) : /\ probe.log[j].store = probe.log[i].store
                        /\ probe.log[j].call.name = "memory_set_key"
                        /\ probe.log[j].call.args[1] = k}
KeysBefore(i) == {k \in {"k1", "k2"} : SetsBefore(i, k) # {}}
Latest(js) == CHOOSE j \in js : \A l \in js : l <= j

\* C24: a sub-agent starts on a transcript of its own system and user
\* message and works on a store of its own. What a get returns in one agent
\* is a value set in that same agent, a list shows keys set in that same
\* agent, and an agent's transcript grows by the results of its own calls
\* only.
AgentOf(c) == IF c = 3 THEN "subagent_0" ELSE "orchestrator"
OwnResults(c) ==
    LET RECURSIVE Own(_)
        Own(n) == IF n = 0 THEN <<>>
                  ELSE IF probe.log[n].caller = c
                       THEN Append(Own(n - 1), probe.log[n].message)
                       ELSE Own(n - 1)
    IN  Own(Len(probe.log))
AgentsShareNoMemory ==
    probe.op = "memory" =>
        /\ \A i \in 1..Len(probe.log) :
            LET e == probe.log[i]
                mine(k) == {j \in SetsBefore(i, k) :
                               AgentOf(probe.log[j].caller) = AgentOf(e.caller)}
            IN  /\ e.call.name = "memory_get_key" =>
                     e.message.content \in
                        {MissingText(e.call.args[1])}
                        \cup {GetText(e.call.args[1], probe.log[j].call.args[2]) :
                                 j \in mine(e.call.args[1])}
                /\ e.call.name = "memory_list_keys" =>
                     e.message.content \in
                        {ListText(o) : o \in Orders({k \in {"k1", "k2"} : mine(k) # {}})}
        /\ \A c \in 1..3 :
            probe.callers[c].pc = "idle" =>
                probe.callers[c].messages =
                    (IF c = 3 THEN <<System("subagent prompt"), User("subtask")>>
                     ELSE <<System("orchestrator prompt"), User("task")>>) \o OwnResults(c)
\* The sub-agent set k1; a get of k1 in the orchestrator then found nothing.
SubAgentKeyUnseenByParent ==
    /\ probe.op = "memory"
    /\ Len(probe.log) >= 2
    /\ probe.log[1].caller = 3 /\ probe.log[1].call.name = "memory_set_key"
    /\ probe.log[1].call.args[1] = "k1"
    /\ probe.log[2].caller = 1 /\ probe.log[2].call.name = "memory_get_key"
    /\ probe.log[2].message = Tool(probe.log[2].call.id, "memory_get_key",
                                   "key k1 is not in memory")

\* C25: on one store, whichever of its tools is called and by whom, get(k)
\* returns the value of the latest set of k, or the not-found text, no error,
\* when k was never set; list returns the keys set so far, each once, in
\* some order; set returns its text; get and list leave the map as it was.
MemoryToolsOnOneMap ==
    probe.op = "memory" =>
        \A i \in 1..Len(probe.log) :
            LET e == probe.log[i]
                k == e.call.args[1]
            IN  /\ e.ok
                /\ e.message.kind = "Tool" /\ e.message.name = e.call.name
                /\ e.call.name = "memory_get_key" =>
                     /\ e.after = e.before
                     /\ e.message.content =
                          IF SetsBefore(i, k) = {} THEN MissingText(k)
                          ELSE GetText(k, probe.log[Latest(SetsBefore(i, k))].call.args[2])
                /\ e.call.name = "memory_list_keys" =>
                     /\ e.after = e.before
                     /\ e.message.content \in {ListText(o) : o \in Orders(KeysBefore(i))}
                /\ e.call.name = "memory_set_key" =>
                     /\ e.message.content = InsertedText(k)
                     /\ DOMAIN e.after = DOMAIN e.before \cup {k}
                     /\ e.after[k] = e.call.args[2]
\* k1 was set to v1 through one caller's tools and to v2 through the
\* other's; a get of k1 then returned v2.
LaterSetRead ==
    /\ probe.op = "memory"
    /\ Len(probe.log) = 3
    /\ probe.log[1].call = ToolCall(probe.log[1].call.id, "memory_set_key", <<"k1", "v1">>)
    /\ probe.log[2].call = ToolCall(probe.log[2].call.id, "memory_set_key", <<"k1", "v2">>)
    /\ probe.log[3].call.name = "memory_get_key"
    /\ probe.log[3].message.content = "value of key k1: v2"

\* The callers inside a call on store s.
Inside(s) == {c \in 1..3 : probe.callers[c].store = s /\ probe.callers[c].pc = "locked"}
\* C26: on each store at most one call is at work at any time, and it is the
\* holder of the store's mutex; every call that returned found the map as
\* the call that returned before it on that store had left it (empty at
\* first), changed it by its own set or not at all, and the store holds what
\* the last returned call left: no set is lost, none is seen half done.
MemoryCallsSerialized ==
    probe.op = "memory" =>
        /\ \A s \in 1..2 :
            /\ Cardinality(Inside(s)) <= 1
            /\ Inside(s) = (IF probe.holder[s] = 0 THEN {} ELSE {probe.holder[s]})
            /\ LET on == {j \in 1..Len(probe.log) : probe.log[j].store = s} IN
               probe.stores[s] = (IF on = {} THEN memory ELSE probe.log[Latest(on)].after)
        /\ \A i \in 1..Len(probe.log) :
            LET e == probe.log[i]
                on == {j \in 1..(i - 1) : probe.log[j].store = e.store}
            IN  /\ e.before = (IF on = {} THEN memory ELSE probe.log[Latest(on)].after)
                /\ e.after = (IF e.call.name = "memory_set_key"
                               THEN set_key(e.before, e.call.args[1], e.call.args[2])
                               ELSE e.before)
\* Caller 2 holds the mutex of store 1, with a set of k1 under way, after a
\* set of k1 by caller 1 has returned; caller 1 is idle.
SetUnderWayAfterSet ==
    /\ probe.op = "memory"
    /\ probe.holder[1] = 2
    /\ probe.callers[2].call.name = "memory_set_key"
    /\ probe.callers[1].pc = "idle"
    /\ Len(probe.log) = 1 /\ probe.log[1].caller = 1
    /\ probe.log[1].call.name = "memory_set_key"

\* C27: the backend answers LLMResponseError exactly when the response has no
\* choice, or its first choice is not of role assistant, or its first choice
\* has no content; any other response comes back as the first choice's text
\* with its tool calls (id, name, raw arguments) in order.
ResponseRejected(choices) ==
    \/ choices = <<>>
    \/ choices[1].role # "assistant"
    \/ choices[1].content = None
AssistantResponseAccepted ==
    (probe.op = "completion" /\ probe.out # None) =>
        IF ResponseRejected(probe.choices)
        THEN ~probe.out[1].ok /\ probe.out[1].err[1] = "LLMResponseError"
        ELSE LET given == IF probe.choices[1].tool_calls = None THEN <<>>
                          ELSE probe.choices[1].tool_calls[1]
             IN  /\ probe.out[1].ok
                 /\ probe.out[1].content = probe.choices[1].content[1]
                 /\ Len(probe.out[1].tool_calls) = Len(given)
                 /\ \A i \in 1..Len(given) :
                        probe.out[1].tool_calls[i] =
                            ToolCall(given[i].id, given[i].function.name,
                                     given[i].function.arguments)

\* The position of the last history-cleared marker in the sink, 0 if none.
LastCleared ==
    LET at == {i \in 1..Len(logger.sink) : logger.sink[i].tag = "cleared"} IN
    IF at = {} THEN 0 ELSE Latest(at)
\* C28: after each call of the logger that succeeded, the messages written
\* since the last history-cleared marker (since the start, if there is none)
\* are exactly the transcript of that call, the hashes kept are those of that
\* transcript, the step counter is the number of calls made, and the caller
\* has the transcript back as it gave it.
LogHoldsCurrentTranscript ==
    (probe.op = "logger" /\ probe.calls # <<>>) =>
        LET k == Len(probe.calls) IN
        /\ LogWritten(SubSeq(logger.sink, LastCleared + 1, Len(logger.sink))) = LogGiven(k)
        /\ logger.last_hashes = [i \in 1..Len(LogGiven(k)) |-> get_hash(LogGiven(k)[i])]
        /\ logger.step = k
        /\ messages = LogGiven(k)
\* Three calls: the second on a transcript that departs from the first, with
\* the marker written, the third on a proper extension of the second.
LoggedExtensionAfterClear ==
    /\ probe.op = "logger"
    /\ Len(probe.calls) = 3
    /\ LogGiven(1) # <<>>
    /\ Diverges(LogGiven(1), LogGiven(2))
    /\ LogGiven(2) # <<>>
    /\ ProperExtension(LogGiven(2), LogGiven(3))
    /\ LastCleared = probe.calls[2].from + 1
    /\ logger.step = 3

\* C29: a compaction that keeps at least one message leaves the last message
\* of the transcript, and with it what TaskCompleted says of the transcript,
\* as it was, as a tool and as a callback, on any transcript. In a run, the
\* SummarizeHistory callback leaves the last message and the verdict alone,
\* and a run whose transcript ends on the complete_task result when the stop
\* condition is next evaluated returns there, compacted or not.
CompactionKeepsVerdict ==
    [][/\ (/\ probe.op = "input" /\ probe'.op # "input"
            /\ probe.keep_last >= 1 /\ probe'.out.ok /\ messages # <<>>)
           => /\ probe'.out.messages # <<>>
              /\ Last(probe'.out.messages) = Last(messages)
              /\ TaskCompleted(probe'.out.messages) = TaskCompleted(messages)
       /\ (/\ pc = "callbacks" /\ CallbackAt(agent.callbacks, cb_idx) = "SummarizeHistory"
            /\ pc' # "failed")
           => /\ Last(messages') = Last(messages)
              /\ TaskCompleted(messages') = TaskCompleted(messages)
       /\ (/\ pc = "loop" /\ pc' # "loop"
            /\ agent.stop = "TaskCompleted" /\ TaskCompleted(messages))
           => pc' = "returned" /\ result'.kind = "Ok"]_vars
\* A run returned after one turn whose complete_task result was followed,
\* in that turn, by a compaction: the summary stands third, the result last.
ReturnedAfterCompaction ==
    /\ probe.op = "none"
    /\ pc = "returned"
    /\ turns = 1
    /\ Len(messages) = 5
    /\ messages[3] = Assistant("summary", <<>>)
    /\ Last(messages) = Tool(1, "complete_task", "report")

\* The three errors of the match that ends Orchestrator::run.
WorkflowErrors ==
    {<<"AgentWorkflowError", d>> :
        d \in {"message history empty", "another tool call", "not a tool call"}}
\* C30: when the orchestrator's agent run has returned, Orchestrator::run
\* returns the result text of the complete_task Tool message its transcript
\* ends on; when the agent run failed it returns that error; in no case one
\* of the three workflow errors of its own match.
OrchestratorReturnsReport ==
    [][Exits =>
         /\ result' \notin {[kind |-> "Err", err |-> e] : e \in WorkflowErrors}
         /\ IF pc = "returned"
            THEN /\ Last(messages).kind = "Tool" /\ Last(messages).name = "complete_task"
                 /\ result' = [kind |-> "Text", err |-> NoError,
                               text |-> Last(messages).content]
            ELSE result' = result]_vars
\* Orchestrator::run returned "report" after a run of two turns.
ExitedWithReport ==
    /\ pc = "exited"
    /\ turns = 2
    /\ result = [kind |-> "Text", err |-> NoError, text |-> "report"]
    /\ Last(messages) = Tool(2, "complete_task", "report")
====
